---- MODULE Spec2Model ----
(***************************************************************************)
(* SunWolf-SUPT dashboard: the metric pipeline of app.py / core_engine.py, *)
(* app_v6_5_localfix.py and app_v6_6_localfix.py.                          *)
(*                                                                         *)
(* Numbers.  A Python float is modelled as an exact rational               *)
(* [n |-> numerator, d |-> denominator] with d > 0; the float NaN is the   *)
(* record with d = 0.  Binary rounding is not modelled.                    *)
(* Depths are integers in half-kilometres (2.5 km = 5), times are integer  *)
(* instants, text cells are sequences of one-character strings.            *)
(***************************************************************************)
EXTENDS Integers, Sequences, FiniteSets, TLC

\* ------------------------------------------------------------------ bounds
MaxRows == 3        \* rows of events.csv in an evaluation cycle
MaxTime == 2        \* distinct event instants
MaxLen == 3         \* length of a generated magnitude text
MaxMagRows == 2     \* rows of the table in the magnitude-cleaning runs
MaxTicks == 5       \* clock advances in the cache runs
MaxCoreRows == 2    \* rows of each table handed to compute_metrics

\* ----------------------------------------------------------------- numbers
NaN == [n |-> 0, d |-> 0]
IsNaN(x) == x.d = 0
Abs(i) == IF i < 0 THEN -i ELSE i

RECURSIVE Gcd(_, _)
Gcd(a, b) == IF b = 0 THEN a ELSE Gcd(b, a % b)

Rat(n, d) ==
    LET g == Gcd(Abs(n), d)
    IN  IF g = 0 THEN NaN ELSE [n |-> n \div g, d |-> d \div g]
Int2Rat(i) == [n |-> i, d |-> 1]
Zero == Int2Rat(0)
One == Int2Rat(1)

\* float arithmetic: NaN propagates
Add(x, y) == IF IsNaN(x) \/ IsNaN(y) THEN NaN ELSE Rat(x.n * y.d + y.n * x.d, x.d * y.d)
Mul(x, y) == IF IsNaN(x) \/ IsNaN(y) THEN NaN ELSE Rat(x.n * y.n, x.d * y.d)
\* x / y for y >= 0; 0/0 is NaN (x/0 with x # 0 does not occur in the pipeline)
Div(x, y) ==
    IF IsNaN(x) \/ IsNaN(y) \/ y.n = 0 THEN NaN ELSE Rat(x.n * y.d, x.d * y.n)
\* float comparisons: every comparison with NaN is False
Ge(x, y) == ~IsNaN(x) /\ ~IsNaN(y) /\ x.n * y.d >= y.n * x.d
Gt(x, y) == ~IsNaN(x) /\ ~IsNaN(y) /\ x.n * y.d > y.n * x.d
Lt(x, y) == ~IsNaN(x) /\ ~IsNaN(y) /\ x.n * y.d < y.n * x.d
InUnit(x) == Ge(x, Zero) /\ Ge(One, x)

\* Python min(a, b): b if b < a else a
PyMin(a, b) == IF Lt(b, a) THEN b ELSE a
\* Python max(a, b) on integers
IntMax(a, b) == IF b > a THEN b ELSE a

\* np.clip(x, lo, hi) = minimum(maximum(x, lo), hi); NaN stays NaN
NpClip(x, lo, hi) ==
    IF IsNaN(x) THEN NaN
    ELSE IF Lt(x, lo) THEN lo
    ELSE IF Gt(x, hi) THEN hi
    ELSE x

RECURSIVE SeqSum(_)
SeqSum(s) == IF s = <<>> THEN 0 ELSE Head(s) + SeqSum(Tail(s))

RECURSIVE RatSum(_)
RatSum(s) == IF s = <<>> THEN Zero ELSE Add(Head(s), RatSum(Tail(s)))

RECURSIVE RatMax(_)
RatMax(s) ==
    IF Len(s) = 1 THEN Head(s)
    ELSE LET m == RatMax(Tail(s)) IN IF Gt(Head(s), m) THEN Head(s) ELSE m

RECURSIVE Pow10(_)
Pow10(k) == IF k = 0 THEN 1 ELSE 10 * Pow10(k - 1)

\* -------------------------------------------------------------------- text
Digits == {"0", "1", "2", "3", "4", "5", "6", "7", "8", "9"}
DigitValue(c) ==
    CASE c = "0" -> 0 [] c = "1" -> 1 [] c = "2" -> 2 [] c = "3" -> 3 [] c = "4" -> 4
      [] c = "5" -> 5 [] c = "6" -> 6 [] c = "7" -> 7 [] c = "8" -> 8 [] c = "9" -> 9

RECURSIVE DigitsValue(_)
DigitsValue(s) ==
    IF s = <<>> THEN 0
    ELSE 10 * DigitsValue(SubSeq(s, 1, Len(s) - 1)) + DigitValue(s[Len(s)])

\* last index of the maximal run of digits of s that starts at i (s[i] a digit)
RECURSIVE RunEnd(_, _)
RunEnd(s, i) == IF i < Len(s) /\ s[i + 1] \in Digits THEN RunEnd(s, i + 1) ELSE i

\* a cell of a parsed table: missing (NaN/None), or its text str(value)
MissingCell == [na |-> TRUE, text |-> <<>>]
TextCell(t) == [na |-> FALSE, text |-> t]

\* re.search(r"(\d+\.\d+|\d+)", text): the leftmost position with a match is
\* the first digit; there the decimal alternative is tried before the integer
\* one.  The result is <<first, last>> of group 1, or <<0, 0>> for no match.
ReSearchNumberSwapped(text) ==
    LET starts == {i \in 1..Len(text) : text[i] \in Digits}
    IN  IF starts = {} THEN <<0, 0>>
        ELSE LET i == CHOOSE k \in starts : \A j \in starts : k <= j
             IN  <<i, RunEnd(text, i)>>
ReSearchNumber(text) ==
    LET starts == {i \in 1..Len(text) : text[i] \in Digits}
    IN  IF starts = {} THEN <<0, 0>>
        ELSE LET i == CHOOSE k \in starts : \A j \in starts : k <= j
                 e == RunEnd(text, i)
             IN  IF e + 2 <= Len(text) /\ text[e + 1] = "." /\ text[e + 2] \in Digits
                 THEN <<i, RunEnd(text, e + 2)>>
                 ELSE <<i, e>>

\* float(token) for a token of the form digits or digits.digits
FloatOfToken(tok) ==
    LET dots == {i \in 1..Len(tok) : tok[i] = "."}
    IN  IF dots = {} THEN Int2Rat(DigitsValue(tok))
        ELSE LET p == CHOOSE i \in dots : TRUE
                 fr == SubSeq(tok, p + 1, Len(tok))
             IN  Rat(DigitsValue(SubSeq(tok, 1, p - 1)) * Pow10(Len(fr)) + DigitsValue(fr),
                     Pow10(Len(fr)))

\* app_v6_5_localfix.clean_magnitude
clean_magnitude(value) ==
    IF value.na THEN NaN
    ELSE LET m == ReSearchNumber(value.text)
         IN  IF m[1] = 0 THEN NaN
             ELSE FloatOfToken(SubSeq(value.text, m[1], m[2]))

\* pd.to_numeric(cell, errors="coerce") on one cell: the whole text must be a
\* decimal literal (digits with at most one point and at least one digit)
to_numeric(value) ==
    IF value.na THEN NaN
    ELSE LET t == value.text
             dots == {i \in 1..Len(t) : t[i] = "."}
             digs == {i \in 1..Len(t) : t[i] \in Digits}
         IN  IF digs = {} \/ Cardinality(dots) > 1 \/ dots \cup digs # 1..Len(t) THEN NaN
             ELSE IF dots = {} THEN Int2Rat(DigitsValue(t))
             ELSE LET p == CHOOSE i \in dots : TRUE
                      fr == SubSeq(t, p + 1, Len(t))
                  IN  Rat(DigitsValue(SubSeq(t, 1, p - 1)) * Pow10(Len(fr)) + DigitsValue(fr),
                          Pow10(Len(fr)))


\* ------------------------------------------------------------ event tables
\* events.csv as pd.read_csv yields it: unreadable (read_csv raises), or a
\* table with the columns "Time", magCol and "Depth"; a row's Time cell is an
\* instant or unparseable, its Depth cell a number or not.
NaT == [ok |-> FALSE, t |-> 0]
Instant(k) == [ok |-> TRUE, t |-> k]
NoDepth == [na |-> TRUE, h |-> 0]
Depth(h) == [na |-> FALSE, h |-> h]
Event(t, m, h) == [time |-> t, magnitude |-> m, depth_km |-> h]

\* the rows of s at the indices in keep, in their order
RECURSIVE RowsAt(_, _, _)
RowsAt(s, keep, i) ==
    IF i > Len(s) THEN <<>>
    ELSE IF i \in keep THEN <<s[i]>> \o RowsAt(s, keep, i + 1)
    ELSE RowsAt(s, keep, i + 1)

\* the canonical columns added to a row, before dropna
Parsed(row, mag) ==
    [timeOk |-> row.Time.ok, time |-> row.Time.t, magnitude |-> mag,
     depthOk |-> ~row.Depth.na, depth_km |-> row.Depth.h]

\* df.dropna(subset=["time", "magnitude", "depth_km"])
DropNa(rows) ==
    LET complete == {i \in 1..Len(rows) :
                        rows[i].timeOk /\ ~IsNaN(rows[i].magnitude) /\ rows[i].depthOk}
        kept == RowsAt(rows, complete, 1)
    IN  [i \in 1..Len(kept) |-> Event(kept[i].time, kept[i].magnitude, kept[i].depth_km)]

\* df.sort_values("time", ascending=False); equal times keep their order
RECURSIVE InsertDesc(_, _)
InsertDesc(sorted, r) ==
    IF sorted = <<>> THEN <<r>>
    ELSE IF Head(sorted).time >= r.time THEN <<Head(sorted)>> \o InsertDesc(Tail(sorted), r)
    ELSE <<r>> \o sorted
RECURSIVE SortDesc(_)
SortDesc(rows) ==
    IF rows = <<>> THEN <<>>
    ELSE InsertDesc(SortDesc(SubSeq(rows, 1, Len(rows) - 1)), rows[Len(rows)])

\* "Mag" in c or "Magnitude" in c, for the column names a table can have
ContainsMag(c) == c = "Magnitude"

\* app_v6_5_localfix.load_local_ingv_csv: [failed, df]
\* df["magnitude"] = df[mag_col].apply(clean_magnitude)
magnitude_column(csv) == [i \in 1..Len(csv.rows) |-> clean_magnitude(csv.rows[i].Mag)]
load_local_ingv_csv(csv) ==
    IF ~csv.readable \/ ~ContainsMag(csv.magCol)
    THEN [failed |-> TRUE, df |-> <<>>]
    ELSE [failed |-> FALSE,
          df |-> SortDesc(DropNa(
                     [i \in 1..Len(csv.rows) |->
                         Parsed(csv.rows[i], magnitude_column(csv)[i])]))]

\* app_v6_6_localfix.load_seismic_data (the function under its cache): the
\* columns are df['Time'], df['MD'], df['Depth']; the rows keep the file order
load_seismic_data_v66(csv) ==
    IF ~csv.readable \/ csv.magCol # "MD"
    THEN [failed |-> TRUE, df |-> <<>>]
    ELSE [failed |-> FALSE,
          df |-> DropNa([i \in 1..Len(csv.rows) |-> Parsed(csv.rows[i], to_numeric(csv.rows[i].Mag))])]

\* names bound in app.py's module namespace (its imports and its two defs)
AppNames == {"st", "pd", "requests", "compute_metrics", "load_seismic_data", "fetch_kp"}
Resolves(name) == name \in AppNames

\* app.load_seismic_data: live catalog, else events.csv of the last 7 days,
\* else the synthetic generator.  remote is what fetch_ingv_seismic_data
\* answers where that name resolves; a name that does not resolve raises
\* NameError at its use.  [raised, source, df]
load_seismic_data_app(remote, csv, cutoff) ==
    IF Resolves("fetch_ingv_seismic_data") /\ remote.ok /\ remote.df # <<>>
    THEN [raised |-> FALSE, source |-> "live", df |-> remote.df]
    ELSE IF csv.readable /\ Resolves("np") /\ Resolves("dt")
    THEN LET all == DropNa([i \in 1..Len(csv.rows) |->
                            Parsed(csv.rows[i],
                                   IF csv.magCol \in {"MD", "Magnitude"}
                                   THEN to_numeric(csv.rows[i].Mag) ELSE NaN)])
             recent == {i \in 1..Len(all) : all[i].time >= cutoff}
         IN  [raised |-> FALSE, source |-> "local", df |-> RowsAt(all, recent, 1)]
    ELSE IF Resolves("generate_synthetic_seismic_data")
    THEN [raised |-> FALSE, source |-> "synthetic", df |-> <<>>]
    ELSE [raised |-> TRUE, source |-> "none", df |-> <<>>]

\* ------------------------------------------------------------ geomagnetic feed
\* a response of the NOAA feed: the transport outcome, the HTTP status, the
\* kind of body and, for a body with data rows, the last row's Kp
Response(transport, status, body, kp) ==
    [transport |-> transport, status |-> status, body |-> body, kp |-> kp]
\* requests.get(...).json(), data[-1][1], float(...) raise on these
ParseFails(resp) == resp.transport # "ok" \/ resp.body # "rows"

\* app.fetch_kp (the function under its cache)
fetch_kp(resp) == IF ParseFails(resp) THEN Int2Rat(3) ELSE resp.kp
\* app_v6_5_localfix.fetch_geomag_data
fetch_geomag_data(resp) ==
    IF resp.transport # "ok" \/ resp.status >= 400 \/ ParseFails(resp) THEN Zero ELSE resp.kp
\* app_v6_6_localfix.fetch_noaa_kp (the function under its cache)
fetch_noaa_kp(resp) ==
    IF resp.transport # "ok" \/ resp.status >= 400 \/ ParseFails(resp) THEN Zero ELSE resp.kp
FetchFailed(resp) == resp.transport # "ok" \/ resp.status >= 400 \/ resp.body # "rows"

\* ------------------------------------------------------------------ metrics
None == <<>>
Some(x) == <<x>>

ShallowLimit == 5       \* depth_km < 2.5, in half-kilometres
CoreShallowLimit == 6   \* core_engine: depth < 3, in half-kilometres
DepthClipMax == 10      \* np.clip(..., 0, 5), in half-kilometres
Hours == 24             \* generate_solar_history(psi_s, hours=24); linspace(.., 24)
RollWindow == 3         \* rolling(3, min_periods=1)

\* app_v6_5_localfix.compute_eii
compute_eii_v65(md_max, md_mean, shallow_ratio, psi_s) ==
    NpClip(Add(Add(Mul(md_max, Rat(20, 100)), Mul(md_mean, Rat(15, 100))),
               Add(Mul(shallow_ratio, Rat(40, 100)), Mul(psi_s, Rat(25, 100)))),
           Zero, One)
\* app_v6_6_localfix.compute_eii
compute_eii_v66(md_max, md_mean, shallow_ratio, psi_s) ==
    NpClip(Add(Add(Mul(md_max, Rat(20, 100)), Mul(md_mean, Rat(15, 100))),
               Add(Mul(shallow_ratio, Rat(40, 100)), Mul(psi_s, Rat(25, 100)))),
           Zero, One)

\* app_v6_5_localfix.classify_phase (the dash of the texts is written "-")
classify_phase_v65(EII) ==
    IF Ge(EII, Rat(85, 100)) THEN "ACTIVE - Collapse Window Initiated"
    ELSE IF Ge(EII, Rat(6, 10)) THEN "ELEVATED - Pressure Coupling Phase"
    ELSE "MONITORING"

\* app_v6_6_localfix.classify_phase
classify_phase_strict(EII) ==
    IF Gt(EII, Rat(85, 100)) THEN "ACTIVE - Collapse Window Initiated"
    ELSE IF Gt(EII, Rat(6, 10)) THEN "ELEVATED - Pressure Coupling Phase"
    ELSE "MONITORING - Stable"
classify_phase_v66(EII) ==
    IF Ge(EII, Rat(85, 100)) THEN "ACTIVE - Collapse Window Initiated"
    ELSE IF Ge(EII, Rat(6, 10)) THEN "ELEVATED - Pressure Coupling Phase"
    ELSE "MONITORING - Stable"

\* "Coherent" if cci >= 0.7 else "Moderate" if cci >= 0.4 else "Decoupled"
CoherenceLabel(cci) ==
    IF Ge(cci, Rat(7, 10)) THEN "Coherent"
    ELSE IF Ge(cci, Rat(4, 10)) THEN "Moderate"
    ELSE "Decoupled"

\* app_v6_6_localfix.supt_diagnostic: the variable parts of its text
supt_diagnostic(EII, CCI, Kp) ==
    [phase |-> IF Ge(EII, Rat(85, 100)) THEN "ACTIVE - Collapse Window Initiated"
               ELSE IF Ge(EII, Rat(6, 10)) THEN "ELEVATED - Pressure Coupling Phase"
               ELSE "MONITORING - Stable",
     coherence |-> CoherenceLabel(CCI),
     geomag |-> IF Ge(Kp, Int2Rat(5)) THEN "Geomagnetic Storm Active"
                ELSE IF Ge(Kp, Int2Rat(3)) THEN "Moderate Geomagnetic Activity"
                ELSE "Quiet geomagnetic conditions",
     CCI |-> CCI, EII |-> EII]

Magnitudes(df) == [i \in 1..Len(df) |-> df[i].magnitude]
Depths(df) == [i \in 1..Len(df) |-> df[i].depth_km]
ShallowCount(df, limit) == Cardinality({i \in 1..Len(df) : df[i].depth_km < limit})

\* app_v6_5_localfix, "Compute SUPT metrics"
metrics_v65(df, psi_s) ==
    IF df # <<>>
    THEN LET md_max == RatMax(Magnitudes(df))
             md_mean == Div(RatSum(Magnitudes(df)), Int2Rat(Len(df)))
             shallow_ratio == Rat(ShallowCount(df, ShallowLimit), IntMax(Len(df), 1))
             EII == compute_eii_v65(md_max, md_mean, shallow_ratio, psi_s)
         IN  [md_max |-> Some(md_max), md_mean |-> Some(md_mean),
              shallow_ratio |-> Some(shallow_ratio),
              EII |-> EII, RPAM |-> classify_phase_v65(EII)]
    ELSE [md_max |-> None, md_mean |-> None, shallow_ratio |-> None,
          EII |-> Zero, RPAM |-> "NO DATA"]

\* app_v6_6_localfix, "Compute metrics"
metrics_v66(df, psi_s) ==
    LET md_max == IF df = <<>> THEN Zero ELSE RatMax(Magnitudes(df))
        md_mean == IF df = <<>> THEN Zero
                   ELSE Div(RatSum(Magnitudes(df)), Int2Rat(Len(df)))
        shallow_ratio == IF df = <<>> THEN Zero
                         ELSE Rat(ShallowCount(df, ShallowLimit), IntMax(Len(df), 1))
        EII == compute_eii_v66(md_max, md_mean, shallow_ratio, psi_s)
    IN  [md_max |-> Some(md_max), md_mean |-> Some(md_mean),
         shallow_ratio |-> Some(shallow_ratio),
         EII |-> EII, RPAM |-> classify_phase_v66(EII)]

\* round(x, 3), ties to even
Round3(x) ==
    IF IsNaN(x) THEN NaN
    ELSE LET k == (x.n * 1000) \div x.d
             r2 == 2 * ((x.n * 1000) % x.d)
         IN  IF r2 > x.d \/ (r2 = x.d /\ k % 2 = 1) THEN Rat(k + 1, 1000) ELSE Rat(k, 1000)

\* core_engine.compute_metrics; a table is its 'depth' column
core_shallow_ratio(depths) ==
    IF depths = <<>> THEN NaN
    ELSE Rat(Cardinality({i \in 1..Len(depths) : depths[i] < CoreShallowLimit}), Len(depths))
compute_metrics(cf_df, vulc_df, kp_index) ==
    LET eii == Mul(Mul(Rat(1, 2), Add(core_shallow_ratio(cf_df), core_shallow_ratio(vulc_df))),
                   Add(One, PyMin(Div(kp_index, Int2Rat(7)), Rat(25, 100))))
    IN  [EII |-> Round3(eii),
         RPAM |-> IF Gt(eii, Rat(55, 100)) THEN "ELEVATED" ELSE "NORMAL",
         psi_scale |-> Round3(Add(One, PyMin(Div(kp_index, Int2Rat(28)), Rat(25, 100))))]

\* ---------------------------------------------------------------- coherence
\* np.random.normal(psi_s, 0.05, n): sample j of the draw `seed`, in
\* hundredths; the deviation is Noise(seed, j) standard deviations
Noise(seed, j) ==
    IF seed = 1 THEN (j % 3) - 1 ELSE IF seed = 2 THEN ((j * j) % 5) - 2 ELSE (j % 7) - 3
PsiSeries(p, seed, n) == [j \in 1..n |-> p + 5 * Noise(seed, j)]

SumProd(xs, ys) == SeqSum([i \in 1..Len(xs) |-> xs[i] * ys[i]])
\* n^2 times the population variance of xs
VarN(xs) == Len(xs) * SumProd(xs, xs) - SeqSum(xs) * SeqSum(xs)
CovN(xs, ys) == Len(xs) * SumProd(xs, ys) - SeqSum(xs) * SeqSum(ys)

\* np.corrcoef(znorm(xs), znorm(ys))[0, 1] ** 2 where znorm(v) is
\* (v - mean(v)) / std(v): a series of zero variance normalises to 0/0 = NaN,
\* and NaN goes through corrcoef and the square
CorrSquared(xs, ys) ==
    IF VarN(xs) = 0 \/ VarN(ys) = 0 THEN NaN
    ELSE Mul(Rat(CovN(xs, ys), VarN(xs)), Rat(CovN(xs, ys), VarN(ys)))

\* app_v6_5_localfix, "CCI Gauge": nothing is shown for an empty table
cci_v65(df, p, seed) ==
    IF df # <<>>
    THEN LET cci == IF Len(df) > 2
                    THEN CorrSquared(PsiSeries(p, seed, Len(df)), Depths(df))
                    ELSE Zero
         IN  Some([cci |-> cci, label |-> CoherenceLabel(cci)])
    ELSE None

\* df["depth_km"].rolling(3, min_periods=1).mean(), times 6
Rolling6(d) ==
    [i \in 1..Len(d) |->
        LET lo == IntMax(1, i - RollWindow + 1)
        IN  SeqSum(SubSeq(d, lo, i)) * (6 \div (i - lo + 1))]
\* np.clip(., 0, 5) of the rolling mean, times 6
Clipped6(d) ==
    [i \in 1..Len(d) |->
        IF Rolling6(d)[i] < 0 THEN 0
        ELSE IF Rolling6(d)[i] > 6 * DepthClipMax THEN 6 * DepthClipMax
        ELSE Rolling6(d)[i]]
\* np.interp(np.linspace(0, n - 1, 24), np.arange(n), y), times 23
Interp23(y) ==
    [j \in 1..Hours |->
        LET q == (j - 1) * (Len(y) - 1)
            k == q \div (Hours - 1)
            f == q % (Hours - 1)
        IN  IF k + 2 > Len(y) THEN (Hours - 1) * y[Len(y)]
            ELSE y[k + 1] * (Hours - 1 - f) + y[k + 2] * f]
depth_signal(df) == Interp23(Clipped6(Depths(df)))

\* app_v6_6_localfix, "psi_s-Depth Coherence Index"
cci_v66(df, p, seed) ==
    LET cci == IF df # <<>>
               THEN IF Len(df) > 1
                    THEN CorrSquared(PsiSeries(p, seed, Hours), depth_signal(df))
                    ELSE Zero
               ELSE Zero
    IN  Some([cci |-> cci, label |-> CoherenceLabel(cci)])

\* ------------------------------------------------------------------- state
VARIABLES
    pc,       \* position of the running script or call
    prog,     \* which program runs: "v65", "v66", "app"
    csv,      \* events.csv as read_csv yields it
    psi,      \* the sidebar slider, in hundredths
    resp,     \* the feed's response to the request made, if one was made
    load,     \* what the load function returned
    kp,       \* what the Kp fetch returned
    m,        \* md_max, md_mean, shallow_ratio, EII, RPAM
    c,        \* cci and its label
    diag,     \* the diagnostic panel (v6.6) or event summary (v6.5)
    arg,      \* the arguments of a function applied on its own
    res,      \* and its result
    cleaned,  \* the magnitude column before dropna
    now,      \* the clock, in seconds
    ticks,    \* how often the clock has advanced
    cache,    \* the st.cache_data entry of the Kp fetch
    last      \* what the last refresh saw and did

vars == <<pc, prog, csv, psi, resp, load, kp, m, c, diag, arg, res, cleaned,
          now, ticks, cache, last>>
cycleVars == <<prog, csv, psi, resp, load, kp, m, c, diag, cleaned>>
callVars == <<arg, res>>
cacheVars == <<now, ticks, cache, last>>

NoCsv == [readable |-> FALSE, magCol |-> "MD", rows |-> <<>>]
CycleIdle ==
    /\ csv = NoCsv /\ psi = 0 /\ resp = None /\ load = None /\ kp = None
    /\ m = None /\ c = None /\ diag = None /\ cleaned = None
CallIdle == arg = None /\ res = None
CacheIdle == now = 0 /\ ticks = 0 /\ cache = None /\ last = None

\* ------------------------------------------------------------------ inputs
Useless == <<"U", "s", "e", "l", "e", "s", "s", " ", "0", ".", "5", "±", "0", ".", "3">>
NoNumbers ==
    <<"n", "o", " ", "n", "u", "m", "b", "e", "r", "s", " ", "h", "e", "r", "e">>
MainMagTexts == {<<"1", ".", "5">>, Useless}
MainDepths == {4, 5, 12}
MainRows ==
    {[Time |-> Instant(t), Mag |-> TextCell(mt), Depth |-> Depth(h)] :
        t \in 1..MaxTime, mt \in MainMagTexts, h \in MainDepths}
    \cup {[Time |-> NaT, Mag |-> TextCell(<<"1", ".", "5">>), Depth |-> Depth(4)],
          [Time |-> Instant(1), Mag |-> MissingCell, Depth |-> Depth(4)],
          [Time |-> Instant(1), Mag |-> TextCell(<<"1", ".", "5">>), Depth |-> NoDepth]}
TablesOf(rows, n) == UNION {[1..k -> rows] : k \in 0..n}
MainCsvs ==
    {NoCsv} \cup {[readable |-> TRUE, magCol |-> col, rows |-> r] :
                     col \in {"MD", "Magnitude"}, r \in TablesOf(MainRows, MaxRows)}
PsiInputs == {0, 72, 100}
NoiseSeeds == {1, 2, 3}
Responses ==
    {Response("timeout", 0, "none", Zero),
     Response("ok", 503, "rows", Rat(233, 100)),
     Response("ok", 200, "malformed", Zero),
     Response("ok", 200, "empty_list", Zero),
     Response("ok", 200, "rows", Rat(233, 100)),
     Response("ok", 200, "rows", Int2Rat(5))}

\* ------------------------------------------------------- evaluation cycle
\* One run of a script from its top, with empty caches.
Init ==
    /\ pc = "start"
    /\ prog \in {"v65", "v66", "app"}
    /\ csv \in MainCsvs
    /\ psi \in (IF prog = "app" THEN {0} ELSE PsiInputs)
    /\ resp = None /\ load = None /\ kp = None /\ m = None /\ c = None
    /\ diag = None /\ cleaned = None
    /\ CallIdle /\ CacheIdle

Df == load[1].df

\* app_v6_5_localfix: df = load_local_ingv_csv()
Load65 ==
    /\ pc = "start" /\ prog = "v65"
    /\ load' = Some(load_local_ingv_csv(csv))
    /\ cleaned' = IF load'[1].failed THEN None ELSE Some(magnitude_column(csv))
    /\ pc' = "loaded"
    /\ UNCHANGED <<prog, csv, psi, resp, kp, m, c, diag, callVars, cacheVars>>

\* app_v6_6_localfix: df = load_seismic_data()
Load66 ==
    /\ pc = "start" /\ prog = "v66"
    /\ load' = Some(load_seismic_data_v66(csv))
    /\ pc' = "loaded"
    /\ UNCHANGED <<prog, csv, psi, resp, kp, m, c, diag, cleaned, callVars, cacheVars>>

\* app.py from its top: the first statement after the definitions calls
\* fetch_ingv
AppModule ==
    /\ pc = "start" /\ prog = "app"
    /\ pc' = IF Resolves("fetch_ingv") THEN "loaded" ELSE "raised"
    /\ UNCHANGED <<cycleVars, callVars, cacheVars>>

\* a call of app.load_seismic_data()
AppLoad ==
    /\ pc = "start" /\ prog = "app"
    /\ \E remoteOk \in BOOLEAN, remoteDf \in {<<>>, <<Event(1, One, 4)>>}, cutoff \in 0..MaxTime :
          load' = Some(load_seismic_data_app([ok |-> remoteOk, df |-> remoteDf], csv, cutoff))
    /\ pc' = IF load'[1].raised THEN "raised" ELSE "returned"
    /\ UNCHANGED <<prog, csv, psi, resp, kp, m, c, diag, cleaned, callVars, cacheVars>>

\* app_v6_5_localfix: geomag_kp = fetch_geomag_data()
Fetch65 ==
    /\ pc = "loaded" /\ prog = "v65"
    /\ \E r \in Responses : resp' = Some(r) /\ kp' = Some(fetch_geomag_data(r))
    /\ pc' = "fetched"
    /\ UNCHANGED <<prog, csv, psi, load, m, c, diag, cleaned, callVars, cacheVars>>

\* app_v6_6_localfix: kp_index = fetch_noaa_kp()
Fetch66 ==
    /\ pc = "loaded" /\ prog = "v66"
    /\ \E r \in Responses : resp' = Some(r) /\ kp' = Some(fetch_noaa_kp(r))
    /\ pc' = "fetched"
    /\ UNCHANGED <<prog, csv, psi, load, m, c, diag, cleaned, callVars, cacheVars>>

Metrics65 ==
    /\ pc = "fetched" /\ prog = "v65"
    /\ m' = Some(metrics_v65(Df, Rat(psi, 100)))
    /\ pc' = "metrics"
    /\ UNCHANGED <<prog, csv, psi, resp, load, kp, c, diag, cleaned, callVars, cacheVars>>

Metrics66 ==
    /\ pc = "fetched" /\ prog = "v66"
    /\ m' = Some(metrics_v66(Df, Rat(psi, 100)))
    /\ pc' = "metrics"
    /\ UNCHANGED <<prog, csv, psi, resp, load, kp, c, diag, cleaned, callVars, cacheVars>>

Cci65 ==
    /\ pc = "metrics" /\ prog = "v65"
    /\ \E seed \in NoiseSeeds : c' = cci_v65(Df, psi, seed)
    /\ pc' = "cci"
    /\ UNCHANGED <<prog, csv, psi, resp, load, kp, m, diag, cleaned, callVars, cacheVars>>

Cci66 ==
    /\ pc = "metrics" /\ prog = "v66"
    /\ \E seed \in NoiseSeeds : c' = cci_v66(Df, psi, seed)
    /\ pc' = "cci"
    /\ UNCHANGED <<prog, csv, psi, resp, load, kp, m, diag, cleaned, callVars, cacheVars>>

\* app_v6_5_localfix, "Summary Block": latest = df.iloc[0]
Summary65 ==
    /\ pc = "cci" /\ prog = "v65"
    /\ diag' = IF Df # <<>> THEN Some([latest |-> Df[1], events |-> Len(Df)]) ELSE None
    /\ pc' = "done"
    /\ UNCHANGED <<prog, csv, psi, resp, load, kp, m, c, cleaned, callVars, cacheVars>>

\* app_v6_6_localfix: st.markdown(supt_diagnostic(EII, cci, kp_index))
Diagnostic66 ==
    /\ pc = "cci" /\ prog = "v66"
    /\ diag' = Some(supt_diagnostic(m[1].EII, c[1].cci, kp[1]))
    /\ pc' = "done"
    /\ UNCHANGED <<prog, csv, psi, resp, load, kp, m, c, cleaned, callVars, cacheVars>>

Next ==
    \/ Load65 \/ Load66 \/ AppModule \/ AppLoad
    \/ Fetch65 \/ Fetch66 \/ Metrics65 \/ Metrics66
    \/ Cci65 \/ Cci66 \/ Summary65 \/ Diagnostic66

Spec == Init /\ [][Next]_vars

\* ------------------------------------------------- functions on their own
\* compute_eii (v6.5, v6.6) and core_engine.compute_metrics applied to
\* arguments drawn from bounded sets
EiiReals == {Int2Rat(-3), Zero, Rat(3, 2), Int2Rat(9)}
EiiArgs ==
    [fn : {"compute_eii_v65", "compute_eii_v66"}, md_max : EiiReals, md_mean : EiiReals,
     shallow_ratio : {Zero, Rat(1, 2), One}, psi_s : {Zero, Rat(72, 100), One}]
CoreTables == TablesOf(MainDepths, MaxCoreRows)
CoreArgs ==
    [fn : {"compute_metrics"}, cf_df : CoreTables, vulc_df : CoreTables,
     kp_index : {Zero, One, Rat(7, 4), Int2Rat(7)}]

InitEii ==
    /\ pc = "call" /\ prog = "call"
    /\ arg \in {Some(a) : a \in EiiArgs \cup CoreArgs}
    /\ res = None
    /\ CycleIdle /\ CacheIdle

ApplyComputeEii ==
    /\ pc = "call" /\ arg # None /\ arg[1].fn \in {"compute_eii_v65", "compute_eii_v66"}
    /\ res' = Some([EII |-> IF arg[1].fn = "compute_eii_v65"
                            THEN compute_eii_v65(arg[1].md_max, arg[1].md_mean,
                                                 arg[1].shallow_ratio, arg[1].psi_s)
                            ELSE compute_eii_v66(arg[1].md_max, arg[1].md_mean,
                                                 arg[1].shallow_ratio, arg[1].psi_s)])
    /\ pc' = "returned"
    /\ UNCHANGED <<arg, cycleVars, cacheVars>>

\* the result of compute_metrics, with the two shallow ratios it computed
ApplyComputeMetrics ==
    /\ pc = "call" /\ arg # None /\ arg[1].fn = "compute_metrics"
    /\ res' = Some([EII |-> compute_metrics(arg[1].cf_df, arg[1].vulc_df, arg[1].kp_index).EII,
                    RPAM |-> compute_metrics(arg[1].cf_df, arg[1].vulc_df, arg[1].kp_index).RPAM,
                    cf_sr |-> core_shallow_ratio(arg[1].cf_df),
                    vulc_sr |-> core_shallow_ratio(arg[1].vulc_df)])
    /\ pc' = "returned"
    /\ UNCHANGED <<arg, cycleVars, cacheVars>>

NextEii == ApplyComputeEii \/ ApplyComputeMetrics
SpecEii == InitEii /\ [][NextEii]_vars

\* classify_phase (v6.5, v6.6) and supt_diagnostic applied to EII values given
\* in millionths, or NaN
MicroInputs ==
    {-1, 0, 300000, 599900, 599999, 600000, 600001, 700000, 849999, 850000, 850001,
     900000, 1000000, 1000001}
PhaseArgs == {[nan |-> FALSE, micro |-> k] : k \in MicroInputs} \cup {[nan |-> TRUE, micro |-> 0]}
ArgEII == IF arg[1].nan THEN NaN ELSE Rat(arg[1].micro, 1000000)

InitPhase ==
    /\ pc = "call" /\ prog = "call"
    /\ arg \in {Some(a) : a \in PhaseArgs}
    /\ res = None
    /\ CycleIdle /\ CacheIdle

ApplyClassify65 ==
    /\ pc = "call"
    /\ res' = Some([fn |-> "classify_phase_v65", phase |-> classify_phase_v65(ArgEII)])
    /\ pc' = "returned"
    /\ UNCHANGED <<arg, cycleVars, cacheVars>>

ApplyClassify66 ==
    /\ pc = "call"
    /\ res' = Some([fn |-> "classify_phase_v66", phase |-> classify_phase_v66(ArgEII)])
    /\ pc' = "returned"
    /\ UNCHANGED <<arg, cycleVars, cacheVars>>

ApplyDiagnostic ==
    /\ pc = "call"
    /\ \E cci \in {Zero, Rat(4, 10), Rat(7, 10), NaN}, k \in {Zero, Int2Rat(3), Int2Rat(5)} :
          res' = Some([fn |-> "supt_diagnostic",
                       phase |-> supt_diagnostic(ArgEII, cci, k).phase,
                       coherence |-> supt_diagnostic(ArgEII, cci, k).coherence,
                       geomag |-> supt_diagnostic(ArgEII, cci, k).geomag])
    /\ pc' = "returned"
    /\ UNCHANGED <<arg, cycleVars, cacheVars>>

NextPhase == ApplyClassify65 \/ ApplyClassify66 \/ ApplyDiagnostic
SpecPhase == InitPhase /\ [][NextPhase]_vars

\* load_local_ingv_csv on tables whose magnitude cells are texts over a small
\* alphabet, the two texts of the documentation, or missing
Alphabet == {"0", "5", ".", "x"}
MagCells ==
    {MissingCell} \cup {TextCell(t) : t \in TablesOf(Alphabet, MaxLen) \cup {Useless, NoNumbers}}
OtherCells == {MissingCell, TextCell(<<"1", ".", "5">>), TextCell(NoNumbers)}
MagRow(cell) == [Time |-> Instant(1), Mag |-> cell, Depth |-> Depth(4)]
MagTables ==
    {<<>>} \cup
    {<<MagRow(first)>> \o [i \in 1..Len(rest) |-> MagRow(rest[i])] :
        first \in MagCells, rest \in TablesOf(OtherCells, MaxMagRows - 1)}
InitMag ==
    /\ pc = "start" /\ prog = "v65"
    /\ csv \in {[readable |-> TRUE, magCol |-> "Magnitude", rows |-> r] : r \in MagTables}
    /\ psi = 0 /\ resp = None /\ load = None /\ kp = None /\ m = None /\ c = None
    /\ diag = None /\ cleaned = None
    /\ CallIdle /\ CacheIdle
SpecMag == InitMag /\ [][Load65]_vars

\* -------------------------------------------------------------- Kp cache
TtlV66 == 600   \* @st.cache_data(ttl=600) on fetch_noaa_kp
TtlApp == 10    \* @st.cache_data(ttl=10) on fetch_kp

\* st.cache_data: an entry answers until ttl seconds after it was stored
Entry(value, t) == Some([value |-> value, storedAt |-> t])
Fresh(entry, t, ttl) == entry # None /\ t < entry[1].storedAt + ttl

\* fetch_noaa_kp() through its cache at time t, the feed answering r
fetch_noaa_kp_cached_successes(entry, t, r) ==
    IF Fresh(entry, t, TtlV66)
    THEN [hit |-> TRUE, value |-> entry[1].value, cache |-> entry]
    ELSE [hit |-> FALSE, value |-> fetch_noaa_kp(r),
          cache |-> IF FetchFailed(r) THEN None ELSE Entry(fetch_noaa_kp(r), t)]
fetch_noaa_kp_cached(entry, t, r) ==
    IF Fresh(entry, t, TtlV66)
    THEN [hit |-> TRUE, value |-> entry[1].value, cache |-> entry]
    ELSE [hit |-> FALSE, value |-> fetch_noaa_kp(r), cache |-> Entry(fetch_noaa_kp(r), t)]

\* fetch_kp() through its cache at time t, the feed answering r
fetch_kp_cached(entry, t, r) ==
    IF Fresh(entry, t, TtlApp)
    THEN [hit |-> TRUE, value |-> entry[1].value, cache |-> entry]
    ELSE [hit |-> FALSE, value |-> fetch_kp(r), cache |-> Entry(fetch_kp(r), t)]

Ttl == IF prog = "app" THEN TtlApp ELSE TtlV66
CacheResponses ==
    {Response("timeout", 0, "none", Zero),
     Response("ok", 200, "malformed", Zero),
     Response("ok", 200, "rows", Rat(233, 100))}

InitCache ==
    /\ pc = "idle" /\ prog \in {"v66", "app"}
    /\ CacheIdle /\ CycleIdle /\ CallIdle

\* time passes between two refreshes
Tick ==
    /\ pc = "idle" /\ ticks < MaxTicks
    /\ \E d \in {1, Ttl - 1} : now' = now + d
    /\ ticks' = ticks + 1
    /\ UNCHANGED <<pc, cache, last, cycleVars, callVars>>

\* what a refresh at `now` saw and did: how long ago the feed was last
\* contacted and whether that fetch failed, whether this refresh contacted
\* the feed, what the feed answers now, and the Kp returned
Refreshed(out, r) ==
    Some([hadContact |-> last # None,
          sinceContact |-> IF last # None THEN now - last[1].contactAt ELSE 0,
          priorFailed |-> last # None /\ last[1].contactFailed,
          contacted |-> ~out.hit,
          feedOk |-> ~FetchFailed(r),
          result |-> out.value,
          contactAt |-> IF out.hit /\ last # None THEN last[1].contactAt ELSE now,
          contactFailed |-> IF out.hit /\ last # None THEN last[1].contactFailed
                            ELSE FetchFailed(r)])

\* app_v6_6_localfix: kp_index = fetch_noaa_kp(), once per refresh
Refresh66 ==
    /\ pc = "idle" /\ prog = "v66"
    /\ \E r \in CacheResponses :
          /\ cache' = fetch_noaa_kp_cached(cache, now, r).cache
          /\ last' = Refreshed(fetch_noaa_kp_cached(cache, now, r), r)
    /\ UNCHANGED <<pc, now, ticks, cycleVars, callVars>>

\* app: kp = fetch_kp()
RefreshApp ==
    /\ pc = "idle" /\ prog = "app"
    /\ \E r \in CacheResponses :
          /\ cache' = fetch_kp_cached(cache, now, r).cache
          /\ last' = Refreshed(fetch_kp_cached(cache, now, r), r)
    /\ UNCHANGED <<pc, now, ticks, cycleVars, callVars>>

NextCache == Tick \/ Refresh66 \/ RefreshApp
SpecCache == InitCache /\ [][NextCache]_vars

\* ================================================================== claims
\* the band a phase text names
BandOf(phase) ==
    CASE phase = "ACTIVE - Collapse Window Initiated" -> "ACTIVE"
      [] phase = "ELEVATED - Pressure Coupling Phase" -> "ELEVATED"
      [] phase \in {"MONITORING", "MONITORING - Stable"} -> "MONITORING"
      [] OTHER -> "NONE"
\* the band of an EII given in millionths: high to low, lower bounds inclusive
ExpectedBand(a) ==
    IF ~a.nan /\ a.micro >= 850000 THEN "ACTIVE"
    ELSE IF ~a.nan /\ a.micro >= 600000 /\ a.micro < 850000 THEN "ELEVATED"
    ELSE "MONITORING"

\* C1: for every EII value, classify_phase (v6.5, v6.6) and supt_diagnostic
\* (v6.6) choose exactly one band: eii >= 0.85 is ACTIVE, 0.60 <= eii < 0.85
\* is ELEVATED, every other eii is MONITORING; 0.85 is ACTIVE, 0.849999 is
\* ELEVATED, 0.6 is ELEVATED and 0.5999 is MONITORING.
C1_PhaseBands ==
    res # None =>
        /\ BandOf(res[1].phase) = ExpectedBand(arg[1])
        /\ (~arg[1].nan /\ arg[1].micro = 850000) => BandOf(res[1].phase) = "ACTIVE"
        /\ (~arg[1].nan /\ arg[1].micro = 849999) => BandOf(res[1].phase) = "ELEVATED"
        /\ (~arg[1].nan /\ arg[1].micro = 600000) => BandOf(res[1].phase) = "ELEVATED"
        /\ (~arg[1].nan /\ arg[1].micro = 599900) => BandOf(res[1].phase) = "MONITORING"
C1_Witness ==
    /\ res # None /\ res[1].fn = "supt_diagnostic"
    /\ ~arg[1].nan /\ arg[1].micro = 849999
    /\ BandOf(res[1].phase) = "ELEVATED"

\* C2: every EII the program computes lies in [0,1]: the result of
\* compute_eii (v6.5, v6.6) and the EII field of core_engine.compute_metrics,
\* for any event tables and any kp_index >= 0.
C2_EiiInUnit == res # None => InUnit(res[1].EII)

\* clamp01(x) = max(0, min(1, x))
Clamp01(x) == IF Lt(x, Zero) THEN Zero ELSE IF Gt(x, One) THEN One ELSE x
RatBand(x) ==
    IF Ge(x, Rat(85, 100)) THEN "ACTIVE" ELSE IF Ge(x, Rat(60, 100)) THEN "ELEVATED"
    ELSE "MONITORING"

\* C3: when the normalized EventSet is empty, the cycle uses md_max = md_mean
\* = shallow_ratio = 0 and produces eii = clamp01(psi_s * 0.25), and the RPAM
\* phase shown is the band of that eii.
C3_EmptyEventSet ==
    (m # None /\ Df = <<>>) =>
        /\ m[1].md_max = Some(Zero) /\ m[1].md_mean = Some(Zero)
        /\ m[1].shallow_ratio = Some(Zero)
        /\ m[1].EII = Clamp01(Rat(psi * 25, 10000))
        /\ BandOf(m[1].RPAM) = RatBand(Clamp01(Rat(psi * 25, 10000)))

\* (number of depths below 2.5 km) / max(number of depths, 1)
ExpectedShallowRatio(depths) ==
    Rat(Cardinality({i \in 1..Len(depths) : 2 * depths[i] < 10}), IntMax(Len(depths), 1))

\* C4: for every EventSet, the shallow ratio used to compute EII equals
\* (events with depth below 2.5 km) / max(events, 1): a number in [0,1],
\* and 0 for an empty EventSet.
C4_ShallowRatio ==
    (res # None /\ arg[1].fn = "compute_metrics") =>
        /\ res[1].cf_sr = ExpectedShallowRatio(arg[1].cf_df)
        /\ res[1].vulc_sr = ExpectedShallowRatio(arg[1].vulc_df)

\* C5: whenever the depth signal has zero variance (all events share one
\* depth) or fewer than 2 points, the CCI that reaches the label and the
\* diagnostic is exactly 0, never NaN; the exposed CCI is a number in [0,1].
C5_CciDefined ==
    c # None =>
        /\ InUnit(c[1].cci)
        /\ (Len(Df) < 2 \/ \A i \in 1..Len(Df) : Df[i].depth_km = Df[1].depth_km)
               => c[1].cci = Zero

\* C6: whenever the geomagnetic fetch fails in any way (timeout, non-2xx
\* status, malformed or empty body), the fetch function raises nothing and
\* returns the fallback constant 3.0.
C6_KpFallback == (kp # None /\ FetchFailed(resp[1])) => kp[1] = Int2Rat(3)

\* C7: for every combination of failures of the seismic sources, the load
\* step terminates without raising and the cycle is not aborted.
C7_LoadNeverRaises == load # None => pc # "raised"

\* C8: the event table the load returns is ordered by descending time for
\* every input row order.
C8_SortedDescending ==
    (load # None /\ pc # "raised") =>
        \A i, j \in 1..Len(Df) : i < j => Df[i].time >= Df[j].time

\* the numeric tokens of a text: digits, or digits "." digits
IsDigitChar(ch) == ch \in Digits
IsDigits(t) == t # <<>> /\ \A i \in 1..Len(t) : t[i] \in Digits
IsNumericToken(t) ==
    \/ IsDigits(t)
    \/ \E p \in 2..(Len(t) - 1) :
          t[p] = "." /\ IsDigits(SubSeq(t, 1, p - 1)) /\ IsDigits(SubSeq(t, p + 1, Len(t)))
TokenSpans(text) ==
    {sp \in (1..Len(text)) \X (1..Len(text)) :
        sp[1] <= sp[2] /\ IsNumericToken(SubSeq(text, sp[1], sp[2]))}
\* the first token: the leftmost start, and from there the longest token
FirstToken(text) ==
    LET sp == CHOOSE a \in TokenSpans(text) :
                  \A b \in TokenSpans(text) : a[1] < b[1] \/ (a[1] = b[1] /\ a[2] >= b[2])
    IN  SubSeq(text, sp[1], sp[2])
\* the value of a token: its digits read as one integer, over 10 to the
\* number of digits after the point
TokenValue(t) ==
    LET dots == {i \in 1..Len(t) : t[i] = "."}
        after == IF dots = {} THEN 0 ELSE Len(t) - (CHOOSE i \in dots : TRUE)
    IN  Rat(DigitsValue(SelectSeq(t, IsDigitChar)), Pow10(after))
ExpectedMagnitude(cell) ==
    IF cell.na \/ TokenSpans(cell.text) = {} THEN NaN ELSE TokenValue(FirstToken(cell.text))

\* C9: clean_magnitude returns the value of the first decimal or integer
\* numeric token of the cell's text ("Useless 0.5±0.3" gives 0.5) and
\* missing when there is none or the cell is missing; every row whose
\* magnitude is missing is absent from the normalized table.
C9_CleanMagnitude ==
    cleaned # None =>
        LET n == Len(csv.rows)
            expected == [i \in 1..n |-> ExpectedMagnitude(csv.rows[i].Mag)]
            present == {i \in 1..n : ~IsNaN(expected[i]) /\ csv.rows[i].Time.ok
                                     /\ ~csv.rows[i].Depth.na}
        IN  /\ cleaned[1] = expected
            /\ \A i \in 1..n :
                  /\ csv.rows[i].Mag = TextCell(Useless) => cleaned[1][i] = Rat(5, 10)
                  /\ csv.rows[i].Mag = TextCell(NoNumbers) => IsNaN(cleaned[1][i])
                  /\ csv.rows[i].Mag = MissingCell => IsNaN(cleaned[1][i])
            /\ Len(Df) = Cardinality(present)
            /\ \A k \in 1..Len(Df) : ~IsNaN(Df[k].magnitude)
            /\ \A k \in 1..Len(Df) : \E i \in present : Df[k].magnitude = expected[i]
C9_Witness ==
    /\ cleaned # None /\ Len(csv.rows) = 2
    /\ csv.rows[1].Mag = TextCell(Useless) /\ csv.rows[2].Mag = TextCell(NoNumbers)
    /\ Len(Df) = 1 /\ Df[1].magnitude = Rat(1, 2)

\* the fallback of the running program's Kp fetch
FallbackKp == IF prog = "app" THEN Int2Rat(3) ELSE Zero

\* C10: the TTL cache stores the fallback of a failed fetch like a successful
\* result: a refresh less than the TTL (600 s in v6.6, 10 s in app.py) after
\* a failed fetch returns the fallback Kp without contacting the feed, even
\* if the feed has recovered, and the first refresh after the TTL has expired
\* attempts the fetch again.
C10_FallbackCached ==
    last # None =>
        /\ (last[1].hadContact /\ last[1].sinceContact < Ttl) => ~last[1].contacted
        /\ (last[1].hadContact /\ last[1].priorFailed /\ last[1].sinceContact < Ttl)
               => last[1].result = FallbackKp
        /\ (last[1].hadContact /\ last[1].sinceContact >= Ttl) => last[1].contacted
C10_Witness ==
    /\ last # None /\ prog = "v66"
    /\ last[1].hadContact /\ last[1].priorFailed /\ last[1].sinceContact = Ttl - 1
    /\ last[1].feedOk /\ ~last[1].contacted /\ last[1].result = Zero
====
